---- MODULE Spec2Model ----
(***************************************************************************)
(* A model of the set-genome crate: the genome (five gene sets), the       *)
(* structural mutation operators, crossover and the cycle / alternative    *)
(* queries.                                                                *)
(*                                                                         *)
(* Gene sets (Genes<T>, a HashSet keyed by the gene's identity) are        *)
(* functions from the identity to the rest of the gene:                    *)
(*   nodes        id              |-> [activation, id_counter]             *)
(*   connections  <<input,output>> |-> [weight, id_counter]                 *)
(* Identifiers produced by hashing (Connection::next_id, Node::next_id)    *)
(* are terms over what is hashed: the hash is taken to be collision free.  *)
(* Weights are integers counted in units of 1/WUnit, so 1.0 is WUnit and   *)
(* halving is exact.                                                       *)
(***************************************************************************)
EXTENDS Integers, Sequences, FiniteSets, TLC

VARIABLES
    g,          \* the genome the operators are applied to (self)
    o,          \* a second genome of the same lineage (other in cross_in)
    last,       \* the operator applied last, its result and what it chose
    steps,      \* number of operators applied so far
    panicked,   \* TRUE once an assert! / unwrap() has aborted the program
    id_generator,   \* the IdGenerator: its counter and its cache
    id_iter,        \* the live IdIter: its cache key and its position
    minted          \* the ids drawn from the counter so far, each with the
                    \* cache key it was drawn for (NoKey for next_id)

vars == <<g, o, last, steps, panicked, id_generator, id_iter, minted>>

idvars == <<id_generator, id_iter, minted>>

----------------------------------------------------------------------------
(* Bounds and configuration *)

\* operators applied in one behaviour
MaxSteps == 4

\* Structure::default()
NumInputs == 1
NumOutputs == 1

\* 1.0 in weight units; every weight is halved at most MaxSteps times
WUnit == 2 ^ MaxSteps

\* values the weight sampler can return for a new connection, within [-1.0, 1.0]
WeightSamples == {-(WUnit \div 2)}

\* activation_pool of the AddNode entry of the mutation list
AddNodePool == {"Sigmoid"}

\* activation_pool of the ChangeActivation entry
ActivationPool == {"Tanh", "Sigmoid"}

\* percent_perturbed of the ChangeWeights entry, as a fraction
PercentPerturbedNum == 1
PercentPerturbedDen == 2

\* weight_cap of the ChangeWeights entry: 1.0
WeightCap == WUnit

\* values the perturbation sampler can return
PerturbationSamples == {WUnit \div 2}

\* samples of the normal distribution on both sides of the cap: 0.5 and -1.5
PerturbationRange == {WUnit \div 2, -((3 * WUnit) \div 2)}

\* the caps a ChangeWeights mutation can be configured with: the default and
\* its double
WeightCaps == {WeightCap, 2 * WeightCap}

\* the caps a genome can be configured with: half the default, the default
\* and its double
ConfiguredCaps == {WeightCap \div 2} \cup WeightCaps

\* a sample of the normal distribution beyond the default cap and within its
\* double: -1.5
PerturbationBeyondCap == {-((3 * WUnit) \div 2)}

\* structures a genome is created for: (number_of_inputs, number_of_outputs)
Structures == {<<1, 1>>, <<2, 1>>, <<2, 2>>, <<3, 2>>}

\* values of percent_of_connected_inputs, as (numerator, denominator)
PercentsOfConnectedInputs == {<<0, 1>>, <<1, 3>>, <<1, 2>>, <<1, 1>>}

\* weights of a connection made from two random bits: -1, 0 and 1
InitWeights == {-WUnit, 0, WUnit}

\* activation pools a ChangeActivation mutation can be configured with
ActivationPools == {{}, {"Sigmoid"}, {"Tanh", "Sigmoid"}}

\* the factors a distance can be computed with
Factors == {0, 2}

----------------------------------------------------------------------------
(* Identifiers *)

\* variant: the generator returns the same value at every draw
IoIdSame(i) == <<"io", 0>>

\* ids of the input and output nodes drawn in Genome::new (distinct u64 values)
IoId(i) == <<"io", i>>

\* Connection::next_id: hash of (input, output, id_counter)
ConnectionNextId(input, output, id_counter) == <<"c", input, output, id_counter>>

\* Node::next_id: hash of (id, id_counter)
NodeNextId(id, id_counter) == <<"n", id, id_counter>>

NoId == <<"none">>

----------------------------------------------------------------------------
(* Genes<T> *)

EmptyGenes == [k \in {} |-> {}]

Contains(genes, key) == key \in DOMAIN genes

\* HashSet::insert: adds the gene unless one of that identity is present
Insert(genes, key, gene) ==
    IF key \in DOMAIN genes THEN genes
    ELSE [k \in DOMAIN genes \cup {key} |-> IF k = key THEN gene ELSE genes[k]]

\* HashSet::replace: the gene of that identity is swapped for the given one
Replace(genes, key, gene) ==
    [k \in DOMAIN genes \cup {key} |-> IF k = key THEN gene ELSE genes[k]]

\* HashSet::remove / retain
Retain(genes, keep) == [k \in keep \cap DOMAIN genes |-> genes[k]]

Node(activation) == [activation |-> activation, id_counter |-> 0]

\* Connection::new
Connection(weight) == [weight |-> weight, id_counter |-> 0]

\* every enumeration of a finite set: the orders a HashSet may be iterated in
RECURSIVE Orders(_)
Orders(S) ==
    IF S = {} THEN {<<>>}
    ELSE UNION {{<<x>> \o s : s \in Orders(S \ {x})} : x \in S}

\* iter.cycle().skip(offset).take(n) over the sequence seq
CycleSkipTake(seq, offset, n) ==
    IF Len(seq) = 0 THEN <<>>
    ELSE [i \in 1..n |-> seq[((offset + i - 1) % Len(seq)) + 1]]

\* offsets floor(rng.gen::<f64>() * n) can take
Offsets(n) == IF n = 0 THEN {0} ELSE 0..(n - 1)

\* Iterator::find on a sequence: index of the first element satisfying P, 0 if none
FirstIndex(seq, P(_)) ==
    IF \E i \in 1..Len(seq) : P(seq[i])
    THEN CHOOSE i \in 1..Len(seq) : P(seq[i]) /\ \A j \in 1..(i - 1) : ~P(seq[j])
    ELSE 0

----------------------------------------------------------------------------
(* Genome *)

\* Genome::new
GenomeNew ==
    [inputs |-> [id \in {IoId(i) : i \in 0..(NumInputs - 1)} |-> Node("Linear")],
     hidden |-> EmptyGenes,
     outputs |-> [id \in {IoId(i) : i \in NumInputs..(NumInputs + NumOutputs - 1)}
                    |-> Node("Tanh")],
     feed_forward |-> EmptyGenes,
     recurrent |-> EmptyGenes]

\* Genome::nodes
Nodes(genome) ==
    DOMAIN genome.inputs \cup DOMAIN genome.hidden \cup DOMAIN genome.outputs

\* Genome::contains
GenomeContains(genome, id) == id \in Nodes(genome)

\* Genome::connections
Connections(genome) == DOMAIN genome.feed_forward \cup DOMAIN genome.recurrent

\* Genome::would_form_cycle: the walk over to_visit / visited
RECURSIVE Walk(_, _, _, _)
Walk(genome, start, to_visit, visited) ==
    IF to_visit = {} THEN FALSE
    ELSE LET node == CHOOSE n \in to_visit : TRUE
             rest == to_visit \ {node}
             outs == {c[2] : c \in {c \in DOMAIN genome.feed_forward : c[1] = node}}
         IN  IF node \in visited THEN Walk(genome, start, rest, visited)
             ELSE IF start \in outs THEN TRUE
             ELSE Walk(genome, start, rest \cup outs, visited \cup {node})

\* variant: the walk follows the recurrent connections as well
WouldFormCycleConnections(genome, start, end) ==
    Walk([genome EXCEPT !.feed_forward = @ @@ genome.recurrent], start, {end}, {})

WouldFormCycle(genome, start, end) == Walk(genome, start, {end}, {})

\* Genome::has_alternative_input
HasAlternativeInput(genome, node, exclude) ==
    \E c \in Connections(genome) : c[2] = node /\ c[1] # exclude

\* Genome::has_alternative_output
HasAlternativeOutput(genome, node, exclude) ==
    \E c \in Connections(genome) : c[1] = node /\ c[2] # exclude

----------------------------------------------------------------------------
(* Results of an operator: the genome it leaves and how it ended *)

\* a, b: the connection (or node a) the operator chose; n: the node it created
Result(genome, res, a, b, n) ==
    [genome |-> genome, res |-> res, a |-> a, b |-> b, n |-> n]

----------------------------------------------------------------------------
(* Mutations::add_connection *)

\* variant: the end node is taken without asking would_form_cycle
AddConnectionEndAnyPath(genome, ends, start) ==
    LET Free(end) == /\ end # start
                     /\ ~Contains(genome.feed_forward, <<start, end>>)
    IN  FirstIndex(ends, Free)

\* variant: the start node itself is accepted as end node
AddConnectionEndOrSelf(genome, ends, start) ==
    LET Free(end) == /\ ~Contains(genome.feed_forward, <<start, end>>)
                     /\ ~WouldFormCycle(genome, start, end)
    IN  FirstIndex(ends, Free)

\* the end node found for start_node: first of hidden ++ outputs that is
\* another node, not yet connected and cycle-safe (0 if none)
AddConnectionEnd(genome, ends, start) ==
    LET Free(end) == /\ end # start
                     /\ ~Contains(genome.feed_forward, <<start, end>>)
                     /\ ~WouldFormCycle(genome, start, end)
    IN  FirstIndex(ends, Free)

\* variant: the scan takes one start node less than there are
AddConnectionShortScan(genome, oi, oh, oo, offset, weight) ==
    LET n == Len(oi) + Len(oh) - 1
        starts == CycleSkipTake(oi \o oh, offset, n)
        ends == oh \o oo
        Found(start) == AddConnectionEnd(genome, ends, start) # 0
        i == FirstIndex(starts, Found)
    IN  IF i = 0
        THEN Result(genome, "CouldNotAddFeedForwardConnection", NoId, NoId, NoId)
        ELSE LET start == starts[i]
                 end == ends[AddConnectionEnd(genome, ends, start)]
             IN  Result([genome EXCEPT !.feed_forward =
                             Insert(@, <<start, end>>, Connection(weight))],
                         "Ok", start, end, NoId)

AddConnection(genome, oi, oh, oo, offset, weight) ==
    LET n == Len(oi) + Len(oh)
        starts == CycleSkipTake(oi \o oh, offset, n)
        ends == oh \o oo
        Found(start) == AddConnectionEnd(genome, ends, start) # 0
        i == FirstIndex(starts, Found)
    IN  IF i = 0
        THEN Result(genome, "CouldNotAddFeedForwardConnection", NoId, NoId, NoId)
        ELSE LET start == starts[i]
                 end == ends[AddConnectionEnd(genome, ends, start)]
             IN  IF Contains(genome.feed_forward, <<start, end>>)
                 THEN Result(genome, "Panic", start, end, NoId)
                 ELSE Result([genome EXCEPT !.feed_forward =
                                 Insert(@, <<start, end>>, Connection(weight))],
                             "Ok", start, end, NoId)

----------------------------------------------------------------------------
(* Genome::init: every selected input is connected to every output *)

\* Genome::new for a structure of any size
GenomeNewOf(number_of_inputs, number_of_outputs) ==
    [inputs |-> [id \in {IoId(i) : i \in 0..(number_of_inputs - 1)} |-> Node("Linear")],
     hidden |-> EmptyGenes,
     outputs |-> [id \in {IoId(i) : i \in number_of_inputs..
                                            (number_of_inputs + number_of_outputs - 1)}
                    |-> Node("Tanh")],
     feed_forward |-> EmptyGenes,
     recurrent |-> EmptyGenes]

\* variant: the product is rounded down
InitAmountFloor(percent, number_of_inputs) ==
    (percent[1] * number_of_inputs) \div percent[2]

\* (percent_of_connected_inputs * number_of_inputs as f64).ceil() as usize for
\* the percentage percent[1] / percent[2]
InitAmount(percent, number_of_inputs) ==
    (percent[1] * number_of_inputs + percent[2] - 1) \div percent[2]

\* what possible_inputs.shuffle(rng) followed by take(amount) can select
InitSelections(genome, amount) ==
    {selected \in SUBSET DOMAIN genome.inputs :
        \/ Cardinality(selected) = amount
        \/ selected = DOMAIN genome.inputs /\ Cardinality(selected) < amount}

GenomeInit(genome, selected, weights) ==
    LET pairs == selected \X DOMAIN genome.outputs
    IN  IF \E p \in pairs : Contains(genome.feed_forward, p)
        THEN Result(genome, "Panic", NoId, NoId, NoId)
        ELSE Result([genome EXCEPT !.feed_forward =
                        [k \in DOMAIN @ \cup pairs |->
                            IF k \in pairs THEN Connection(weights[k]) ELSE @[k]]],
                    "Ok", NoId, NoId, NoId)

----------------------------------------------------------------------------
(* Mutations::add_node *)

AddNode(genome, c, activation) ==
    LET random_connection == genome.feed_forward[c]
        id == ConnectionNextId(c[1], c[2], random_connection.id_counter)
        first == [genome EXCEPT !.feed_forward =
                     Insert(@, <<c[1], id>>, Connection(WUnit))]
        second == [first EXCEPT !.feed_forward =
                     Insert(@, <<id, c[2]>>, Connection(random_connection.weight))]
        third == [second EXCEPT !.hidden = Insert(@, id, Node(activation))]
        done == [third EXCEPT !.feed_forward =
                     Replace(@, c, [weight |-> 0,
                                    id_counter |-> random_connection.id_counter + 1])]
    IN  IF Contains(genome.feed_forward, <<c[1], id>>)
            THEN Result(genome, "Panic", c[1], c[2], id)
        ELSE IF Contains(first.feed_forward, <<id, c[2]>>)
            THEN Result(first, "Panic", c[1], c[2], id)
        ELSE IF Contains(second.hidden, id)
            THEN Result(second, "Panic", c[1], c[2], id)
        ELSE Result(done, "Ok", c[1], c[2], id)

----------------------------------------------------------------------------
(* Mutations::remove_node *)

\* variant: only the nodes fed by the candidate are asked for another input
RemovableByOutputs(genome, candidate) ==
    \A c \in Connections(genome) :
        c[1] = candidate => HasAlternativeInput(genome, c[2], candidate)

\* the closure handed to find: every node feeding the candidate has another
\* output and every node fed by it has another input
Removable(genome, candidate) ==
    /\ \A c \in Connections(genome) :
           c[2] = candidate => HasAlternativeOutput(genome, c[1], candidate)
    /\ \A c \in Connections(genome) :
           c[1] = candidate => HasAlternativeInput(genome, c[2], candidate)

\* variant: the connections of the first candidate are dropped before the
\* scan tells whether a node can be removed
RemoveNodeRetainFirst(genome, oh, offset) ==
    LET scan == CycleSkipTake(oh, offset, Len(oh))
        Can(candidate) == Removable(genome, candidate)
        i == FirstIndex(scan, Can)
        Keeps(genes, node) == {c \in DOMAIN genes : c[1] # node /\ c[2] # node}
    IN  IF i = 0
        THEN (IF Len(scan) = 0
              THEN Result(genome, "CouldNotRemoveNode", NoId, NoId, NoId)
              ELSE Result([genome EXCEPT
                              !.feed_forward = Retain(@, Keeps(@, scan[1]))],
                          "CouldNotRemoveNode", NoId, NoId, NoId))
        ELSE Result([genome EXCEPT
                        !.feed_forward = Retain(@, Keeps(@, scan[i])),
                        !.recurrent = Retain(@, Keeps(@, scan[i])),
                        !.hidden = Retain(@, DOMAIN @ \ {scan[i]})],
                    "Ok", scan[i], NoId, NoId)

\* variant: the recurrent connections of the removed node are kept
RemoveNodeFeedForward(genome, oh, offset) ==
    LET scan == CycleSkipTake(oh, offset, Len(oh))
        Can(candidate) == Removable(genome, candidate)
        i == FirstIndex(scan, Can)
    IN  IF i = 0 THEN Result(genome, "CouldNotRemoveNode", NoId, NoId, NoId)
        ELSE LET node == scan[i]
                 Keeps(genes) == {c \in DOMAIN genes : c[1] # node /\ c[2] # node}
             IN  Result([genome EXCEPT
                            !.feed_forward = Retain(@, Keeps(@)),
                            !.hidden = Retain(@, DOMAIN @ \ {node})],
                        "Ok", node, NoId, NoId)

RemoveNode(genome, oh, offset) ==
    LET scan == CycleSkipTake(oh, offset, Len(oh))
        Can(candidate) == Removable(genome, candidate)
        i == FirstIndex(scan, Can)
    IN  IF i = 0 THEN Result(genome, "CouldNotRemoveNode", NoId, NoId, NoId)
        ELSE LET node == scan[i]
                 Keeps(genes) == {c \in DOMAIN genes : c[1] # node /\ c[2] # node}
             IN  Result([genome EXCEPT
                            !.feed_forward = Retain(@, Keeps(@)),
                            !.recurrent = Retain(@, Keeps(@)),
                            !.hidden = Retain(@, DOMAIN @ \ {node})],
                        "Ok", node, NoId, NoId)

----------------------------------------------------------------------------
(* Scans over a connection set.  The set is iterated in some order, entered *)
(* at a random offset and wrapped: the element at the offset comes first,   *)
(* the remaining ones follow in an order the hasher decides.                *)

\* what cycle().skip(offset).take(len).find(P) can return when the element
\* at the offset is at_offset
ScanFinds(genes, at_offset, P(_)) ==
    IF P(at_offset) THEN {at_offset}
    ELSE {c \in DOMAIN genes \ {at_offset} : P(c)}

----------------------------------------------------------------------------
(* Mutations::remove_connection *)

\* variant: only the end node is asked for another input
RemovableConnectionByInput(genome, c) ==
    HasAlternativeInput(genome, c[2], c[1])

RemovableConnection(genome, c) ==
    /\ HasAlternativeInput(genome, c[2], c[1])
    /\ HasAlternativeOutput(genome, c[1], c[2])

\* the outcomes of the scan entered at at_offset (NoId when the set is empty)
RemoveConnection(genome, at_offset) ==
    LET Can(c) == RemovableConnection(genome, c)
        found == IF at_offset = NoId THEN {}
                 ELSE ScanFinds(genome.feed_forward, at_offset, Can)
    IN  IF found = {}
        THEN {Result(genome, "CouldNotRemoveFeedForwardConnection", NoId, NoId, NoId)}
        ELSE {Result([genome EXCEPT !.feed_forward = Retain(@, DOMAIN @ \ {c})],
                     "Ok", c[1], c[2], NoId) : c \in found}

----------------------------------------------------------------------------
(* Mutations::remove_recurrent_connection *)

RemoveRecurrentConnection(genome, at_offset) ==
    IF at_offset = NoId
    THEN Result(genome, "CouldNotRemoveRecurrentConnection", NoId, NoId, NoId)
    ELSE Result([genome EXCEPT !.recurrent = Retain(@, DOMAIN @ \ {at_offset})],
                "Ok", at_offset[1], at_offset[2], NoId)

----------------------------------------------------------------------------
(* Mutations::add_recurrent_connection *)

AddRecurrentConnectionEnd(genome, ends, start) ==
    LET Free(end) == /\ end # start
                     /\ ~Contains(genome.recurrent, <<start, end>>)
    IN  FirstIndex(ends, Free)

\* number of start nodes the scan takes
AddRecurrentConnectionTake(genome) ==
    Cardinality(DOMAIN genome.inputs) + Cardinality(DOMAIN genome.hidden)

AddRecurrentConnection(genome, oi, oh, oo, offset, weight) ==
    LET starts == CycleSkipTake(oi \o oh \o oo, offset,
                                AddRecurrentConnectionTake(genome))
        ends == oh \o oo
        Found(start) == AddRecurrentConnectionEnd(genome, ends, start) # 0
        i == FirstIndex(starts, Found)
    IN  IF i = 0
        THEN Result(genome, "CouldNotAddRecurrentConnection", NoId, NoId, NoId)
        ELSE LET start == starts[i]
                 end == ends[AddRecurrentConnectionEnd(genome, ends, start)]
             IN  IF Contains(genome.recurrent, <<start, end>>)
                 THEN Result(genome, "Panic", start, end, NoId)
                 ELSE Result([genome EXCEPT !.recurrent =
                                 Insert(@, <<start, end>>, Connection(weight))],
                             "Ok", start, end, NoId)

----------------------------------------------------------------------------
(* Mutations::duplicate_node *)

\* variant: the id is taken from the stored counter without the loop
FreeCounterStored(genome, node, id_counter) == id_counter

\* the loop "while genome.contains(id) { id = node.next_id() }": the counter
\* value whose id is the first one not in the genome
RECURSIVE FreeCounter(_, _, _)
FreeCounter(genome, node, id_counter) ==
    IF GenomeContains(genome, NodeNextId(node, id_counter))
    THEN FreeCounter(genome, node, id_counter + 1)
    ELSE id_counter

\* variant: the weight is kept
HalveKeep(weight) == weight

\* weight / 2.0
Halve(weight) == weight \div 2

\* one of the two connection sets after the duplication of node as id; panic
\* when an assert!(insert) finds the connection present
DuplicateConnections(genes, node, id) ==
    LET outgoing == {c \in DOMAIN genes : c[1] = node /\ c[2] # node}
        incoming == {c \in DOMAIN genes : c[2] = node /\ c[1] # node}
        halved == [k \in DOMAIN genes |->
                     IF k \in outgoing THEN [genes[k] EXCEPT !.weight = Halve(@)]
                     ELSE genes[k]]
        new == {<<id, c[2]>> : c \in outgoing} \cup {<<c[1], id>> : c \in incoming}
    IN  [panic |-> \E k \in new : Contains(genes, k),
         genes |-> [k \in DOMAIN genes \cup new |->
                      IF k \in DOMAIN genes THEN halved[k]
                      ELSE IF k[1] = id THEN halved[<<node, k[2]>>]
                      ELSE halved[<<k[1], node>>]]]

DuplicateNode(genome, node) ==
    LET counter == FreeCounter(genome, node, genome.hidden[node].id_counter)
        id == NodeNextId(node, counter)
        feed_forward == DuplicateConnections(genome.feed_forward, node, id)
        recurrent == DuplicateConnections(genome.recurrent, node, id)
        self_loop == <<node, node>>
        looped == IF Contains(genome.recurrent, self_loop)
                  THEN Insert(recurrent.genes, <<id, id>>, genome.recurrent[self_loop])
                  ELSE recurrent.genes
    IN  IF feed_forward.panic THEN Result(genome, "Panic", node, NoId, id)
        ELSE IF recurrent.panic \/ Contains(recurrent.genes, <<id, id>>)
            THEN Result([genome EXCEPT !.feed_forward = feed_forward.genes],
                        "Panic", node, NoId, id)
        ELSE Result([genome EXCEPT
                        !.feed_forward = feed_forward.genes,
                        !.recurrent = looped,
                        !.hidden = Insert(Replace(@, node, [@[node] EXCEPT
                                                 !.id_counter = counter + 1]),
                                          id, Node(@[node].activation))],
                    "Ok", node, NoId, id)

----------------------------------------------------------------------------
(* Mutations::change_activation *)

\* the pool without the node's current activation; the node keeps its
\* activation when nothing is left to choose (unwrap_or)
ActivationChoices(activation_pool, current) ==
    IF activation_pool \ {current} = {} THEN {current}
    ELSE activation_pool \ {current}

\* Node::new(node.id, activation) replaces the node: its id_counter restarts
ChangeActivation(genome, node, activation) ==
    Result([genome EXCEPT !.hidden = Replace(@, node, Node(activation))],
           "Ok", node, NoId, NoId)

----------------------------------------------------------------------------
(* Mutations::change_weights *)

\* (percent_perturbed * len).ceil()
ChangeAmount(len) ==
    (PercentPerturbedNum * len + PercentPerturbedDen - 1) \div PercentPerturbedDen

\* the weight after one perturbation: the perturbation is negated when the
\* sum would leave [-weight_cap, weight_cap]
Perturbed(weight, perturbation, weight_cap) ==
    IF weight + perturbation > weight_cap \/ weight + perturbation < -weight_cap
    THEN weight - perturbation
    ELSE weight + perturbation

\* the genes after drain_into_random().enumerate().map(..): first holds
\* the genes shuffled to the indices below the amount
ChangeWeightsGenes(genes, first, perturbation, weight_cap) ==
    [k \in DOMAIN genes |->
        IF k \in first
        THEN [genes[k] EXCEPT !.weight = Perturbed(@, perturbation[k], weight_cap)]
        ELSE genes[k]]

ChangeWeights(genome, first_ff, first_rec, perturbation, weight_cap) ==
    Result([genome EXCEPT
               !.feed_forward = ChangeWeightsGenes(@, first_ff, perturbation, weight_cap),
               !.recurrent = ChangeWeightsGenes(@, first_rec, perturbation, weight_cap)],
           "Ok", NoId, NoId, NoId)

\* the subsets of the genes that can come first in the shuffle
FirstShuffled(genes) ==
    {S \in SUBSET DOMAIN genes : Cardinality(S) = ChangeAmount(Cardinality(DOMAIN genes))}

----------------------------------------------------------------------------
(* Genes::cross_in and Genome::cross_in *)

\* matching genes whose two copies differ: the coin matters for these only
Differing(self, other) ==
    {k \in DOMAIN self \cap DOMAIN other : self[k] # other[k]}

\* variant: the genes found in self alone are dropped
GenesCrossInMatching(self, other, from_other) ==
    [k \in DOMAIN self \cap DOMAIN other |->
        IF k \in from_other THEN other[k] ELSE self[k]]

\* variant: the genes found in other alone are taken over as well
GenesCrossInUnion(self, other, from_other) ==
    [k \in DOMAIN self \cup DOMAIN other |->
        IF k \in DOMAIN other /\ (k \in from_other \/ k \notin DOMAIN self)
        THEN other[k] ELSE self[k]]

\* from_other: the matching genes whose coin took the copy of other
GenesCrossIn(self, other, from_other) ==
    [k \in (DOMAIN self \cap DOMAIN other) \cup (DOMAIN self \ DOMAIN other) |->
        IF k \in DOMAIN other /\ k \in from_other THEN other[k] ELSE self[k]]

\* variant: the input and output sets are left to Default::default()
GenomeCrossInDefault(self, other, from_ff, from_rec, from_hidden) ==
    [feed_forward |-> GenesCrossIn(self.feed_forward, other.feed_forward, from_ff),
     recurrent |-> GenesCrossIn(self.recurrent, other.recurrent, from_rec),
     hidden |-> GenesCrossIn(self.hidden, other.hidden, from_hidden),
     inputs |-> EmptyGenes,
     outputs |-> EmptyGenes]

GenomeCrossIn(self, other, from_ff, from_rec, from_hidden) ==
    [feed_forward |-> GenesCrossIn(self.feed_forward, other.feed_forward, from_ff),
     recurrent |-> GenesCrossIn(self.recurrent, other.recurrent, from_rec),
     hidden |-> GenesCrossIn(self.hidden, other.hidden, from_hidden),
     inputs |-> self.inputs,
     outputs |-> self.outputs]

----------------------------------------------------------------------------
(* CompatibilityDistance::compatability_distance.  A float is modelled by *)
(* an exact fraction [n, d] in lowest terms with d > 0; the values a      *)
(* division by zero produces have d = 0: NaN is [0, 0], the infinities    *)
(* are [1, 0] and [-1, 0].                                                *)

Abs(x) == IF x < 0 THEN -x ELSE x

Sign(x) == IF x < 0 THEN -1 ELSE IF x > 0 THEN 1 ELSE 0

RECURSIVE Gcd(_, _)
Gcd(a, b) == IF b = 0 THEN a ELSE Gcd(b, a % b)

\* the float n / d
Ratio(n, d) ==
    IF d = 0 THEN [n |-> Sign(n), d |-> 0]
    ELSE LET k == Gcd(Abs(n), Abs(d))
         IN  [n |-> (Sign(d) * n) \div k, d |-> Abs(d) \div k]

NaN == Ratio(0, 0)

Zero == Ratio(0, 1)

\* x + y of floats
Plus(x, y) ==
    IF x.d # 0 /\ y.d # 0 THEN Ratio(x.n * y.d + y.n * x.d, x.d * y.d)
    ELSE IF x.d # 0 THEN y
    ELSE IF y.d # 0 THEN x
    ELSE IF x.n = y.n THEN x ELSE NaN

\* x / k of a float and a number
Over(x, k) ==
    IF x.d = 0
    THEN (IF k < 0 THEN [n |-> -x.n, d |-> 0] ELSE x)
    ELSE Ratio(x.n, x.d * k)

\* iterate_matching_genes: the keys of the intersection
MatchingGenes(self, other) == DOMAIN self \cap DOMAIN other

\* iterate_unique_genes: the keys of the symmetric difference
UniqueGenes(self, other) ==
    (DOMAIN self \ DOMAIN other) \cup (DOMAIN other \ DOMAIN self)

RECURSIVE SumWeightDifference(_, _, _)
\* the sum of (connection_0.weight - connection_1.weight).abs() over keys, in
\* units of 1 / WUnit
SumWeightDifference(self, other, keys) ==
    IF keys = {} THEN 0
    ELSE LET k == CHOOSE x \in keys : TRUE
         IN  Abs(self[k].weight - other[k].weight)
               + SumWeightDifference(self, other, keys \ {k})

WeightDifference(genome_0, genome_1) ==
    SumWeightDifference(genome_0.feed_forward, genome_1.feed_forward,
                        MatchingGenes(genome_0.feed_forward, genome_1.feed_forward))
      + SumWeightDifference(genome_0.recurrent, genome_1.recurrent,
                            MatchingGenes(genome_0.recurrent, genome_1.recurrent))

MatchingConnectionsCount(genome_0, genome_1) ==
    Cardinality(MatchingGenes(genome_0.feed_forward, genome_1.feed_forward))
      + Cardinality(MatchingGenes(genome_0.recurrent, genome_1.recurrent))

DifferentConnectionsCount(genome_0, genome_1) ==
    Cardinality(UniqueGenes(genome_0.feed_forward, genome_1.feed_forward))
      + Cardinality(UniqueGenes(genome_0.recurrent, genome_1.recurrent))

MatchingNodesCount(genome_0, genome_1) ==
    Cardinality(MatchingGenes(genome_0.hidden, genome_1.hidden))

ActivationDifference(genome_0, genome_1) ==
    Cardinality({k \in MatchingGenes(genome_0.hidden, genome_1.hidden) :
                    genome_0.hidden[k].activation # genome_1.hidden[k].activation})

\* the 4-tuple (overall, connections, weights, activations)
CompatabilityDistance(genome_0, genome_1, factor_connections, factor_weights, factor_activations) ==
    LET weight_difference == WeightDifference(genome_0, genome_1)
        activation_difference == ActivationDifference(genome_0, genome_1)
        matching_connections_count == MatchingConnectionsCount(genome_0, genome_1)
        different_connections_count == DifferentConnectionsCount(genome_0, genome_1)
        matching_nodes_count == MatchingNodesCount(genome_0, genome_1)
        maximum_weight_difference == matching_connections_count * 2
        scaled_connection_difference ==
            Ratio(factor_connections * different_connections_count,
                  matching_connections_count + different_connections_count)
        scaled_weight_difference ==
            IF maximum_weight_difference > 0
            THEN Ratio(factor_weights * weight_difference,
                       WUnit * maximum_weight_difference)
            ELSE Zero
        scaled_activation_difference ==
            IF matching_nodes_count > 0
            THEN Ratio(factor_activations * activation_difference, matching_nodes_count)
            ELSE Zero
        overall_scaled_distance ==
            Over(Plus(Plus(scaled_connection_difference, scaled_weight_difference),
                      scaled_activation_difference),
                 factor_connections + factor_weights + factor_activations)
    IN  <<overall_scaled_distance, scaled_connection_difference,
          scaled_weight_difference, scaled_activation_difference>>

----------------------------------------------------------------------------
(* IdGenerator and IdIter *)

\* cache keys asked for: pairs of ids
CacheKeys == {<<4, 2>>, <<9, 9>>}

\* IdGenerator::default(): the counter 0.. and an empty cache
IdGeneratorDefault == [id_gen |-> 0, id_cache |-> << >>]

\* the place of a cache key where there is none
NoKey == <<>>

\* no iterator is alive
NoIter == [key |-> NoKey, index |-> 0]

\* variant: the counter is read and not advanced
NextIdPeek(generator) ==
    [id |-> generator.id_gen, generator |-> generator]

\* self.id_gen.next().map(Id).unwrap(): the id and the generator after it
NextId(generator) ==
    [id |-> generator.id_gen,
     generator |-> [generator EXCEPT !.id_gen = @ + 1]]

\* variant: the entry of the cache key is started anew
CachedIdIterInsert(generator, cache_key) ==
    [generator EXCEPT !.id_cache =
        [k \in DOMAIN @ \cup {cache_key} |-> IF k = cache_key THEN <<>> ELSE @[k]]]

\* id_cache.entry(cache_key).or_insert_with(Vec::new)
CachedIdIter(generator, cache_key) ==
    IF cache_key \in DOMAIN generator.id_cache THEN generator
    ELSE [generator EXCEPT !.id_cache = Insert(@, cache_key, <<>>)]

\* IdIter::next: the cached entry at the position, or a fresh id of the
\* counter, which is appended to the cache entry
IdIterNext(generator, iter) ==
    LET cache_entry == generator.id_cache[iter.key]
    IN  IF iter.index < Len(cache_entry)
        THEN [id |-> cache_entry[iter.index + 1], fresh |-> FALSE,
              generator |-> generator]
        ELSE LET next == NextId(generator)
             IN  [id |-> next.id, fresh |-> TRUE,
                  generator |-> [next.generator EXCEPT
                                    !.id_cache[iter.key] = Append(@, next.id)]]

----------------------------------------------------------------------------
(* Actions *)

NoOp == [op |-> "new", res |-> "Ok", a |-> NoId, b |-> NoId, n |-> NoId]

Init ==
    /\ g = GenomeNew
    /\ o = GenomeNew
    /\ last = NoOp
    /\ steps = 0
    /\ panicked = FALSE
    /\ id_generator = IdGeneratorDefault
    /\ id_iter = NoIter
    /\ minted = <<>>

Ready == ~panicked /\ steps < MaxSteps

Apply(op, r) ==
    /\ g' = r.genome
    /\ last' = [op |-> op, res |-> r.res, a |-> r.a, b |-> r.b, n |-> r.n]
    /\ steps' = steps + 1
    /\ panicked' = (r.res = "Panic")
    /\ UNCHANGED o
    /\ UNCHANGED idvars

\* Genome::init on the new genome; the configured percentage selects the inputs
DoInit ==
    /\ ~panicked /\ last.op = "new"
    /\ \E selected \in SUBSET DOMAIN g.inputs :
       \E weights \in [selected \X DOMAIN g.outputs -> WeightSamples] :
          LET r == GenomeInit(g, selected, weights)
          IN  /\ g' = r.genome
              /\ o' = r.genome
              /\ last' = [NoOp EXCEPT !.op = "init", !.res = r.res]
              /\ panicked' = (r.res = "Panic")
              /\ UNCHANGED steps
              /\ UNCHANGED idvars

DoAddConnection ==
    /\ Ready
    /\ \E oi \in Orders(DOMAIN g.inputs), oh \in Orders(DOMAIN g.hidden),
          oo \in Orders(DOMAIN g.outputs),
          offset \in Offsets(Cardinality(DOMAIN g.inputs) + Cardinality(DOMAIN g.hidden)),
          weight \in WeightSamples :
            Apply("AddConnection", AddConnection(g, oi, oh, oo, offset, weight))

DoAddRecurrentConnection ==
    /\ Ready
    /\ \E oi \in Orders(DOMAIN g.inputs), oh \in Orders(DOMAIN g.hidden),
          oo \in Orders(DOMAIN g.outputs),
          offset \in Offsets(Cardinality(DOMAIN g.inputs) + Cardinality(DOMAIN g.hidden)),
          weight \in WeightSamples :
            Apply("AddRecurrentConnection",
                  AddRecurrentConnection(g, oi, oh, oo, offset, weight))

\* feed_forward.random(rng).unwrap() aborts on an empty set
DoAddNode ==
    /\ Ready
    /\ IF DOMAIN g.feed_forward = {}
       THEN Apply("AddNode", Result(g, "Panic", NoId, NoId, NoId))
       ELSE \E c \in DOMAIN g.feed_forward, activation \in AddNodePool :
               Apply("AddNode", AddNode(g, c, activation))

DoDuplicateNode ==
    /\ Ready
    /\ IF DOMAIN g.hidden = {}
       THEN Apply("DuplicateNode", Result(g, "CouldNotDuplicateNode", NoId, NoId, NoId))
       ELSE \E node \in DOMAIN g.hidden :
               Apply("DuplicateNode", DuplicateNode(g, node))

DoRemoveNode ==
    /\ Ready
    /\ \E oh \in Orders(DOMAIN g.hidden),
          offset \in Offsets(Cardinality(DOMAIN g.hidden)) :
            Apply("RemoveNode", RemoveNode(g, oh, offset))

DoRemoveConnection ==
    /\ Ready
    /\ \E at_offset \in (IF DOMAIN g.feed_forward = {} THEN {NoId}
                         ELSE DOMAIN g.feed_forward) :
       \E r \in RemoveConnection(g, at_offset) :
            Apply("RemoveConnection", r)

DoRemoveRecurrentConnection ==
    /\ Ready
    /\ \E at_offset \in (IF DOMAIN g.recurrent = {} THEN {NoId}
                         ELSE DOMAIN g.recurrent) :
            Apply("RemoveRecurrentConnection", RemoveRecurrentConnection(g, at_offset))

\* nothing happens without a hidden node
DoChangeActivation ==
    /\ Ready
    /\ IF DOMAIN g.hidden = {}
       THEN Apply("ChangeActivation", Result(g, "Ok", NoId, NoId, NoId))
       ELSE \E node \in DOMAIN g.hidden :
            \E activation \in ActivationChoices(ActivationPool, g.hidden[node].activation) :
               Apply("ChangeActivation", ChangeActivation(g, node, activation))

DoChangeWeights ==
    /\ Ready
    /\ \E first_ff \in FirstShuffled(g.feed_forward),
          first_rec \in FirstShuffled(g.recurrent) :
       \E perturbation \in [first_ff \cup first_rec -> PerturbationSamples] :
            Apply("ChangeWeights",
                  ChangeWeights(g, first_ff, first_rec, perturbation, WeightCap))

Next ==
    \/ DoInit
    \/ DoAddConnection
    \/ DoAddRecurrentConnection
    \/ DoAddNode
    \/ DoDuplicateNode
    \/ DoRemoveNode
    \/ DoRemoveConnection
    \/ DoRemoveRecurrentConnection
    \/ DoChangeActivation
    \/ DoChangeWeights

Spec == Init /\ [][Next]_vars

----------------------------------------------------------------------------
(* Crossover: g is mutated by the operators that build and remove        *)
(* structure; o holds a second genome of the same lineage, which g can be *)
(* copied to, exchanged with, or crossed with.                            *)

\* let other = genome.clone()
DoClone ==
    /\ ~panicked /\ o # g
    /\ o' = g
    /\ last' = [NoOp EXCEPT !.op = "Clone"]
    /\ UNCHANGED <<g, steps, panicked>>
    /\ UNCHANGED idvars

\* the two genomes change roles: the next operations act on the other one
DoSwap ==
    /\ ~panicked /\ o # g
    /\ g' = o /\ o' = g
    /\ last' = [NoOp EXCEPT !.op = "Swap"]
    /\ UNCHANGED <<steps, panicked>>
    /\ UNCHANGED idvars

\* genome = genome.cross_in(&other); a crossing may still follow the last
\* mutation
DoCrossIn ==
    /\ ~panicked /\ steps <= MaxSteps
    /\ \E from_ff \in SUBSET Differing(g.feed_forward, o.feed_forward),
          from_rec \in SUBSET Differing(g.recurrent, o.recurrent),
          from_hidden \in SUBSET Differing(g.hidden, o.hidden) :
            g' = GenomeCrossIn(g, o, from_ff, from_rec, from_hidden)
    /\ last' = [NoOp EXCEPT !.op = "CrossIn"]
    /\ steps' = steps + 1
    /\ UNCHANGED <<o, panicked>>
    /\ UNCHANGED idvars

NextCross ==
    \/ DoInit
    \/ DoAddNode
    \/ DoAddConnection
    \/ DoRemoveNode
    \/ DoRemoveConnection
    \/ DoChangeActivation
    \/ DoClone
    \/ DoSwap
    \/ DoCrossIn

SpecCross == Init /\ [][NextCross]_vars

----------------------------------------------------------------------------
(* Weights: the genome grows by connections and its weights are changed   *)
(* with perturbations from the whole range of the sampler.                *)

DoChangeWeightsAny ==
    /\ Ready
    /\ \E first_ff \in FirstShuffled(g.feed_forward),
          first_rec \in FirstShuffled(g.recurrent) :
       \E perturbation \in [first_ff \cup first_rec -> PerturbationRange] :
            Apply("ChangeWeights",
                  ChangeWeights(g, first_ff, first_rec, perturbation, WeightCap))

NextWeights ==
    \/ DoInit
    \/ DoAddNode
    \/ DoAddRecurrentConnection
    \/ DoChangeWeightsAny

SpecWeights == Init /\ [][NextWeights]_vars

----------------------------------------------------------------------------
(* Distance: two genomes of one lineage are grown apart, their weights    *)
(* are changed under any of the configurable caps, and the distance       *)
(* between them is computed with any factors.                             *)

\* Mutations::ChangeWeights { weight_cap, .. } with a configured cap
DoChangeWeightsCapped ==
    /\ Ready
    /\ \E weight_cap \in WeightCaps :
       \E first_ff \in FirstShuffled(g.feed_forward),
          first_rec \in FirstShuffled(g.recurrent) :
       \E perturbation \in [first_ff \cup first_rec -> PerturbationBeyondCap] :
            Apply("ChangeWeights",
                  ChangeWeights(g, first_ff, first_rec, perturbation, weight_cap))

\* CompatibilityDistance::compatability_distance(&genome, &other, ..); a
\* second computation on the same two genomes tells nothing new
DoDistance ==
    /\ ~panicked /\ last.op # "CompatabilityDistance"
    /\ \E fc \in Factors, fw \in Factors, fa \in Factors :
          last' = [op |-> "CompatabilityDistance",
                   res |-> CompatabilityDistance(g, o, fc, fw, fa),
                   a |-> <<fc, fw, fa>>, b |-> NoId, n |-> NoId]
    /\ UNCHANGED <<g, o, steps, panicked>>
    /\ UNCHANGED idvars

NextDistance ==
    \/ DoInit
    \/ DoAddNode
    \/ DoAddRecurrentConnection
    \/ DoChangeActivation
    \/ DoChangeWeightsCapped
    \/ DoClone
    \/ DoSwap
    \/ DoDistance

SpecDistance == Init /\ [][NextDistance]_vars

----------------------------------------------------------------------------
(* Mutation lists: Genome::mutate_with_context walks the configured list  *)
(* of mutations; gamble[k] tells whether the k-th entry wins its chance.  *)

\* the operators a list is made of
Listed == {"AddConnection", "AddNode", "AddRecurrentConnection", "RemoveNode"}

\* the configured lists: one or two entries, repetitions allowed
MutationLists ==
    {<<m>> : m \in Listed} \cup {<<m1, m2>> : m1 \in Listed, m2 \in Listed}

\* the outcomes of Mutations::mutate for an entry that won its chance
Mutate(mutation, genome) ==
    CASE mutation = "ChangeWeights" ->
           UNION {{ChangeWeights(genome, first[1], first[2], perturbation, WeightCap) :
                      perturbation \in [first[1] \cup first[2] -> PerturbationSamples]} :
                  first \in FirstShuffled(genome.feed_forward)
                               \X FirstShuffled(genome.recurrent)}
      [] mutation = "AddNode" ->
           IF DOMAIN genome.feed_forward = {}
           THEN {Result(genome, "Panic", NoId, NoId, NoId)}
           ELSE {AddNode(genome, c, activation) :
                    c \in DOMAIN genome.feed_forward, activation \in AddNodePool}
      [] mutation = "AddConnection" ->
           {AddConnection(genome, oi, oh, oo, offset, weight) :
               oi \in Orders(DOMAIN genome.inputs), oh \in Orders(DOMAIN genome.hidden),
               oo \in Orders(DOMAIN genome.outputs),
               offset \in Offsets(Cardinality(DOMAIN genome.inputs)
                                    + Cardinality(DOMAIN genome.hidden)),
               weight \in WeightSamples}
      [] mutation = "AddRecurrentConnection" ->
           {AddRecurrentConnection(genome, oi, oh, oo, offset, weight) :
               oi \in Orders(DOMAIN genome.inputs), oh \in Orders(DOMAIN genome.hidden),
               oo \in Orders(DOMAIN genome.outputs),
               offset \in Offsets(Cardinality(DOMAIN genome.inputs)
                                    + Cardinality(DOMAIN genome.hidden)),
               weight \in WeightSamples}
      [] mutation = "ChangeActivation" ->
           IF DOMAIN genome.hidden = {}
           THEN {Result(genome, "Ok", NoId, NoId, NoId)}
           ELSE UNION {{ChangeActivation(genome, node, activation) :
                           activation \in ActivationChoices(ActivationPool,
                                              genome.hidden[node].activation)} :
                       node \in DOMAIN genome.hidden}
      [] mutation = "RemoveNode" ->
           {RemoveNode(genome, oh, offset) :
               oh \in Orders(DOMAIN genome.hidden),
               offset \in Offsets(Cardinality(DOMAIN genome.hidden))}
      [] mutation = "RemoveConnection" ->
           UNION {RemoveConnection(genome, at_offset) :
                     at_offset \in (IF DOMAIN genome.feed_forward = {} THEN {NoId}
                                    ELSE DOMAIN genome.feed_forward)}
      [] mutation = "RemoveRecurrentConnection" ->
           {RemoveRecurrentConnection(genome, at_offset) :
               at_offset \in (IF DOMAIN genome.recurrent = {} THEN {NoId}
                              ELSE DOMAIN genome.recurrent)}
      [] mutation = "DuplicateNode" ->
           IF DOMAIN genome.hidden = {}
           THEN {Result(genome, "CouldNotDuplicateNode", NoId, NoId, NoId)}
           ELSE {DuplicateNode(genome, node) : node \in DOMAIN genome.hidden}

RECURSIVE MutateWithContext(_, _, _, _)
\* the loop from its k-th entry on: the genome, the result and the entries
\* whose operator was called; `?` leaves the loop with the first error
MutateWithContext(genome, mutations, gamble, k) ==
    IF k > Len(mutations)
    THEN {[genome |-> genome, res |-> "Ok", attempted |-> <<>>]}
    ELSE IF ~gamble[k]
    THEN MutateWithContext(genome, mutations, gamble, k + 1)
    ELSE UNION {
           IF r.res = "Ok"
           THEN {[rest EXCEPT !.attempted = <<k>> \o @] :
                    rest \in MutateWithContext(r.genome, mutations, gamble, k + 1)}
           ELSE {[genome |-> r.genome, res |-> r.res, attempted |-> <<k>>]} :
           r \in Mutate(mutations[k], genome)}

DoMutateWithContext ==
    /\ ~panicked
    /\ \E mutations \in MutationLists :
          /\ steps + Len(mutations) <= MaxSteps
          /\ \E gamble \in [DOMAIN mutations -> BOOLEAN] :
             \E r \in MutateWithContext(g, mutations, gamble, 1) :
                /\ g' = r.genome
                /\ last' = [op |-> "MutateWithContext", res |-> r.res,
                            a |-> mutations, b |-> gamble, n |-> r.attempted]
                /\ steps' = steps + Len(mutations)
                /\ panicked' = (r.res = "Panic")
                /\ UNCHANGED o
                /\ UNCHANGED idvars

NextMutate ==
    \/ DoInit
    \/ DoMutateWithContext

SpecMutate == Init /\ [][NextMutate]_vars

----------------------------------------------------------------------------
(* Identities: one generator serves next_id calls and cached iterators in *)
(* any interleaving; an iterator ends when the generator is used again.   *)

\* id_generator.next_id()
DoNextId ==
    /\ Len(minted) < MaxSteps
    /\ LET next == NextId(id_generator)
       IN  /\ id_generator' = next.generator
           /\ minted' = Append(minted, [by |-> NoKey, id |-> next.id])
    /\ id_iter' = NoIter
    /\ UNCHANGED <<g, o, last, steps, panicked>>

\* let mut id_iter = id_generator.cached_id_iter(cache_key)
DoCachedIdIter ==
    /\ \E cache_key \in CacheKeys :
          /\ id_generator' = CachedIdIter(id_generator, cache_key)
          /\ id_iter' = [key |-> cache_key, index |-> 0]
    /\ UNCHANGED <<g, o, last, steps, panicked, minted>>

\* id_iter.next()
DoIdIterNext ==
    /\ id_iter # NoIter
    /\ id_iter.index < Len(id_generator.id_cache[id_iter.key])
         \/ Len(minted) < MaxSteps
    /\ LET next == IdIterNext(id_generator, id_iter)
       IN  /\ id_generator' = next.generator
           /\ minted' = IF next.fresh
                        THEN Append(minted, [by |-> id_iter.key, id |-> next.id])
                        ELSE minted
    /\ id_iter' = [id_iter EXCEPT !.index = @ + 1]
    /\ UNCHANGED <<g, o, last, steps, panicked>>

NextIds ==
    \/ DoNextId
    \/ DoCachedIdIter
    \/ DoIdIterNext

SpecIds == Init /\ [][NextIds]_vars

----------------------------------------------------------------------------
(* Initialization: a genome is created for any of the structures and is   *)
(* initialized with any percentage of connected inputs; o keeps the       *)
(* uninitialized genome.                                                  *)

InitStructure ==
    /\ \E structure \in Structures :
          /\ g = GenomeNewOf(structure[1], structure[2])
          /\ last = [NoOp EXCEPT !.b = structure]
    /\ o = g
    /\ steps = 0
    /\ panicked = FALSE
    /\ id_generator = IdGeneratorDefault
    /\ id_iter = NoIter
    /\ minted = <<>>

\* genome.init(&structure)
DoInitStructure ==
    /\ ~panicked /\ last.op = "new"
    /\ \E percent \in PercentsOfConnectedInputs :
       \E selected \in InitSelections(g, InitAmount(percent, last.b[1])) :
       \E weights \in [selected \X DOMAIN g.outputs -> InitWeights] :
          LET r == GenomeInit(g, selected, weights)
          IN  /\ g' = r.genome
              /\ last' = [op |-> "init", res |-> r.res, a |-> percent,
                          b |-> last.b, n |-> NoId]
              /\ panicked' = (r.res = "Panic")
    /\ UNCHANGED <<o, steps>>
    /\ UNCHANGED idvars

\* let mut genome = Genome::new(&structure)
DoNew ==
    /\ ~panicked /\ last.op = "init"
    /\ g' = o
    /\ last' = [NoOp EXCEPT !.b = last.b]
    /\ UNCHANGED <<o, steps, panicked>>
    /\ UNCHANGED idvars

NextInit ==
    \/ DoInitStructure
    \/ DoNew

SpecInit == InitStructure /\ [][NextInit]_vars

----------------------------------------------------------------------------
(* Lineage: every mutation operator acts on g, and g can be crossed with  *)
(* o, the initialized genome it descends from.                            *)

NextAll ==
    \/ DoInit
    \/ DoAddConnection
    \/ DoAddRecurrentConnection
    \/ DoAddNode
    \/ DoDuplicateNode
    \/ DoRemoveNode
    \/ DoRemoveConnection
    \/ DoRemoveRecurrentConnection
    \/ DoChangeActivation
    \/ DoChangeWeights
    \/ DoCrossIn

SpecAll == Init /\ [][NextAll]_vars

----------------------------------------------------------------------------
(* Duplication: the genome of the duplication test (one input, one hidden *)
(* node, one output, three feed-forward connections) is assembled with    *)
(* any set of recurrent connections, self-loops included, or left without *)
(* hidden node; nodes are duplicated over and over.                       *)

\* Genome::initialized(&Parameters::default()) followed by add_node, all
\* weights 1.0
DuplicateBase ==
    LET input == CHOOSE i \in DOMAIN GenomeNew.inputs : TRUE
        output == CHOOSE i \in DOMAIN GenomeNew.outputs : TRUE
        initialized == GenomeInit(GenomeNew, {input},
                                  [c \in {<<input, output>>} |-> WUnit]).genome
    IN  AddNode(initialized, <<input, output>>, "Sigmoid").genome

\* the recurrent connections a genome can be given: any start, and any end
\* that is not an input
RecurrentPairs(genome) ==
    Nodes(genome) \X (DOMAIN genome.hidden \cup DOMAIN genome.outputs)

InitDuplicate ==
    /\ \/ g = GenomeNew
       \/ \E pairs \in SUBSET RecurrentPairs(DuplicateBase) :
             g = [DuplicateBase EXCEPT !.recurrent = [c \in pairs |-> Connection(WUnit)]]
    /\ o = g
    /\ last = NoOp
    /\ steps = 0
    /\ panicked = FALSE
    /\ id_generator = IdGeneratorDefault
    /\ id_iter = NoIter
    /\ minted = <<>>

NextDuplicate ==
    \/ DoDuplicateNode

SpecDuplicate == InitDuplicate /\ [][NextDuplicate]_vars

----------------------------------------------------------------------------
(* Activations: hidden nodes are added and duplicated, and activations    *)
(* are changed with any of the configurable pools.                        *)

\* Mutations::change_activation(&activation_pool, genome, rng)
DoChangeActivationPool ==
    /\ Ready
    /\ \E activation_pool \in ActivationPools :
          IF DOMAIN g.hidden = {}
          THEN Apply("ChangeActivation", Result(g, "Ok", NoId, activation_pool, NoId))
          ELSE \E node \in DOMAIN g.hidden :
               \E activation \in ActivationChoices(activation_pool,
                                                   g.hidden[node].activation) :
                  Apply("ChangeActivation",
                        [ChangeActivation(g, node, activation) EXCEPT !.b = activation_pool])

NextActivation ==
    \/ DoInit
    \/ DoAddNode
    \/ DoDuplicateNode
    \/ DoChangeActivationPool

SpecActivation == Init /\ [][NextActivation]_vars

----------------------------------------------------------------------------
(* Removal: the structural operators act on a genome that was             *)
(* initialized and given one hidden node, so that every hidden node has   *)
(* an incoming and an outgoing connection at the start.                   *)

InitRemove ==
    /\ g = DuplicateBase
    /\ o = DuplicateBase
    /\ last = [NoOp EXCEPT !.op = "init"]
    /\ steps = 0
    /\ panicked = FALSE
    /\ id_generator = IdGeneratorDefault
    /\ id_iter = NoIter
    /\ minted = <<>>

NextRemove ==
    \/ DoAddConnection
    \/ DoAddRecurrentConnection
    \/ DoAddNode
    \/ DoDuplicateNode
    \/ DoRemoveNode
    \/ DoRemoveConnection
    \/ DoRemoveRecurrentConnection

SpecRemove == InitRemove /\ [][NextRemove]_vars

----------------------------------------------------------------------------
(* Cycles: would_form_cycle is asked about two distinct nodes of a genome *)
(* of three nodes whose feed_forward set is any set of connections among  *)
(* them, with or without recurrent connections.                           *)

InitCycle ==
    /\ \E forward \in SUBSET (Nodes(DuplicateBase) \X Nodes(DuplicateBase)),
          backward \in {{}, RecurrentPairs(DuplicateBase)} :
            g = [DuplicateBase EXCEPT
                    !.feed_forward = [c \in forward |-> Connection(WUnit)],
                    !.recurrent = [c \in backward |-> Connection(WUnit)]]
    /\ o = g
    /\ last = NoOp
    /\ steps = 0
    /\ panicked = FALSE
    /\ id_generator = IdGeneratorDefault
    /\ id_iter = NoIter
    /\ minted = <<>>

\* genome.would_form_cycle(&start_node, &end_node)
DoWouldFormCycle ==
    /\ last.op = "new"
    /\ \E start \in Nodes(g) : \E end \in Nodes(g) \ {start} :
          last' = [op |-> "would_form_cycle",
                   res |-> IF WouldFormCycle(g, start, end) THEN "true" ELSE "false",
                   a |-> start, b |-> end, n |-> NoId]
    /\ UNCHANGED <<g, o, steps, panicked>>
    /\ UNCHANGED idvars

NextCycle ==
    \/ DoWouldFormCycle

SpecCycle == InitCycle /\ [][NextCycle]_vars

----------------------------------------------------------------------------
(* Twins: g and o are created from the same structure and take the same   *)
(* structural mutations, each with random draws of its own; weights and   *)
(* activations are changed in one of them at a time.                      *)

TwinApply(op, r, ro) ==
    /\ g' = r.genome
    /\ o' = ro.genome
    /\ last' = [op |-> op, res |-> IF r.res = ro.res THEN r.res ELSE "Differ",
                a |-> r.a, b |-> r.b, n |-> r.n]
    /\ steps' = steps + 1
    /\ panicked' = (r.res = "Panic" \/ ro.res = "Panic")
    /\ UNCHANGED idvars

\* both split the same connection, split equally often before
DoTwinAddNode ==
    /\ Ready
    /\ \E c \in DOMAIN g.feed_forward \cap DOMAIN o.feed_forward :
          /\ g.feed_forward[c].id_counter = o.feed_forward[c].id_counter
          /\ \E activation \in AddNodePool, activation_o \in AddNodePool :
                TwinApply("TwinAddNode", AddNode(g, c, activation),
                          AddNode(o, c, activation_o))

\* both duplicate the same hidden node
DoTwinDuplicateNode ==
    /\ Ready
    /\ \E node \in DOMAIN g.hidden \cap DOMAIN o.hidden :
          TwinApply("TwinDuplicateNode", DuplicateNode(g, node), DuplicateNode(o, node))

NextTwin ==
    \/ DoInit
    \/ DoTwinAddNode
    \/ DoTwinDuplicateNode
    \/ DoChangeActivation
    \/ DoChangeWeights
    \/ DoSwap

SpecTwin == Init /\ [][NextTwin]_vars

----------------------------------------------------------------------------
(* Graph notions the properties are stated in *)

Successors(edges, S) == {e[2] : e \in {e \in edges : e[1] \in S}}

\* the nodes reachable from S along edges (S included)
RECURSIVE Closure(_, _)
Closure(edges, S) ==
    LET T == S \cup Successors(edges, S)
    IN  IF T = S THEN S ELSE Closure(edges, T)

\* a directed path of at least one edge leads from a to b
Path(edges, a, b) == b \in Closure(edges, Successors(edges, {a}))

HasCycle(edges) == \E e \in edges : Path(edges, e[1], e[1])

\* the genes of genome other than feed_forward are those of before
SameBut(before, after, field) ==
    \A f \in {"inputs", "hidden", "outputs", "feed_forward", "recurrent"} \ {field} :
        after[f] = before[f]

\* the genes of before are in after, unchanged, but for the keys in except
Kept(before, after, except) ==
    \A k \in DOMAIN before \ except : k \in DOMAIN after /\ after[k] = before[k]

----------------------------------------------------------------------------
(* C1: after new, init and any sequence of the nine mutation operators the
   feed-forward connections form a graph without directed cycle and without
   self-loop. *)
C1_FeedForwardAcyclic ==
    /\ ~HasCycle(DOMAIN g.feed_forward)
    /\ \A c \in DOMAIN g.feed_forward : c[1] # c[2]

\* a connection between two hidden nodes was added by AddConnection
C1_Witness ==
    /\ last.op = "AddConnection" /\ last.res = "Ok"
    /\ last.a \in DOMAIN g.hidden /\ last.b \in DOMAIN g.hidden
    /\ <<last.a, last.b>> \in DOMAIN g.feed_forward

----------------------------------------------------------------------------
(* C2: when AddConnection returns Ok it has inserted exactly one feed-forward
   connection (start, end) with start an input or hidden node, end a hidden
   or output node, start # end, (start, end) not in feed_forward before and
   would_form_cycle(start, end) false before; feed_forward grows by one and
   no other gene changes. *)
C2_AddConnectionOk ==
    [][(last'.op = "AddConnection" /\ last'.res = "Ok") =>
        LET new == DOMAIN g'.feed_forward \ DOMAIN g.feed_forward
        IN  /\ Cardinality(new) = 1
            /\ \A c \in new :
                  /\ c[1] \in DOMAIN g.inputs \cup DOMAIN g.hidden
                  /\ c[2] \in DOMAIN g.hidden \cup DOMAIN g.outputs
                  /\ c[1] # c[2]
                  /\ ~WouldFormCycle(g, c[1], c[2])
                  /\ ~Path(DOMAIN g.feed_forward, c[2], c[1])
            /\ Cardinality(DOMAIN g'.feed_forward)
                  = Cardinality(DOMAIN g.feed_forward) + 1
            /\ Kept(g.feed_forward, g'.feed_forward, {})
            /\ SameBut(g, g', "feed_forward")]_vars

\* AddConnection succeeded on a genome that holds a hidden node
C2_Witness ==
    /\ last.op = "AddConnection" /\ last.res = "Ok"
    /\ DOMAIN g.hidden # {}
    /\ <<last.a, last.b>> \in DOMAIN g.feed_forward

----------------------------------------------------------------------------
(* C3: AddNode on a genome with a feed-forward connection picks one such
   connection (a, b) of weight w and creates a hidden node n: feed_forward
   grows by two, hidden by one; (a, n) has weight 1.0, (n, b) has weight w,
   (a, b) stays with weight 0.0; every other gene is unchanged. *)
C3_AddNodeSplits ==
    [][(last'.op = "AddNode" /\ DOMAIN g.feed_forward # {}) =>
        LET a == last'.a
            b == last'.b
            n == last'.n
        IN  /\ <<a, b>> \in DOMAIN g.feed_forward
            /\ DOMAIN g'.hidden = DOMAIN g.hidden \cup {n}
            /\ n \notin DOMAIN g.hidden
            /\ DOMAIN g'.feed_forward
                  = DOMAIN g.feed_forward \cup {<<a, n>>, <<n, b>>}
            /\ Cardinality(DOMAIN g'.feed_forward)
                  = Cardinality(DOMAIN g.feed_forward) + 2
            /\ Cardinality(DOMAIN g'.hidden) = Cardinality(DOMAIN g.hidden) + 1
            /\ g'.feed_forward[<<a, n>>].weight = WUnit
            /\ g'.feed_forward[<<n, b>>].weight = g.feed_forward[<<a, b>>].weight
            /\ g'.feed_forward[<<a, b>>].weight = 0
            /\ Kept(g.feed_forward, g'.feed_forward, {<<a, b>>})
            /\ Kept(g.hidden, g'.hidden, {})
            /\ g'.inputs = g.inputs /\ g'.outputs = g.outputs
            /\ g'.recurrent = g.recurrent]_vars

----------------------------------------------------------------------------
(* C4: AddNode never aborts on a genome that holds a feed-forward
   connection.  AddNode only adds connections, so the genome it leaves holds
   one exactly when the genome it was applied to did. *)
C4_AddNodeSucceeds ==
    (last.op = "AddNode" /\ DOMAIN g.feed_forward # {}) => last.res = "Ok"

----------------------------------------------------------------------------
(* C8: when RemoveNode returns Ok exactly one hidden node is gone together
   with every connection touching it, and every former neighbour keeps a
   connection: a node that fed it still has an outgoing one, a node it fed
   still has an incoming one.  CouldNotRemoveNode is returned exactly when
   no hidden node can be removed that way. *)

\* genome without node and the connections touching it
Without(genome, node) ==
    LET Keeps(genes) == {c \in DOMAIN genes : c[1] # node /\ c[2] # node}
    IN  [genome EXCEPT !.hidden = Retain(@, DOMAIN @ \ {node}),
                       !.feed_forward = Retain(@, Keeps(@)),
                       !.recurrent = Retain(@, Keeps(@))]

\* no neighbour of node in before is left without output resp. input in after
NoneDangling(before, after, node) ==
    /\ \A c \in Connections(before) :
          (c[2] = node /\ c[1] # node) =>
              \E d \in Connections(after) : d[1] = c[1]
    /\ \A c \in Connections(before) :
          (c[1] = node /\ c[2] # node) =>
              \E d \in Connections(after) : d[2] = c[2]

C8_RemoveNode ==
    [][(last'.op = "RemoveNode") =>
        /\ last'.res = "Ok" =>
              \E node \in DOMAIN g.hidden :
                  /\ g' = Without(g, node)
                  /\ NoneDangling(g, g', node)
        /\ last'.res = "CouldNotRemoveNode" <=>
              \A node \in DOMAIN g.hidden :
                  ~NoneDangling(g, Without(g, node), node)
        /\ last'.res = "CouldNotRemoveNode" => g' = g]_vars

\* a hidden node with connections on both sides was removed
C8_Witness ==
    /\ last.op = "RemoveNode" /\ last.res = "Ok"
    /\ last.a \notin DOMAIN g.hidden
    /\ DOMAIN g.feed_forward # {}

----------------------------------------------------------------------------
(* C9: when RemoveConnection returns Ok exactly one feed-forward connection
   (a, b) is gone, and before the call b had an incoming connection from a
   node other than a and a had an outgoing connection to a node other than
   b.  When no feed-forward connection is like that the operator returns
   CouldNotRemoveFeedForwardConnection, wherever the scan starts. *)

AlternativesFor(genome, c) ==
    /\ \E d \in Connections(genome) : d[2] = c[2] /\ d[1] # c[1]
    /\ \E d \in Connections(genome) : d[1] = c[1] /\ d[2] # c[2]

C9_RemoveConnection ==
    [][(last'.op = "RemoveConnection") =>
        /\ last'.res = "Ok" =>
              \E c \in DOMAIN g.feed_forward :
                  /\ AlternativesFor(g, c)
                  /\ DOMAIN g'.feed_forward = DOMAIN g.feed_forward \ {c}
                  /\ Kept(g'.feed_forward, g.feed_forward, {})
                  /\ SameBut(g, g', "feed_forward")
        /\ (\A c \in DOMAIN g.feed_forward : ~AlternativesFor(g, c)) =>
              /\ last'.res = "CouldNotRemoveFeedForwardConnection"
              /\ g' = g]_vars

\* a connection was removed and its end nodes are still connected
C9_Witness ==
    /\ last.op = "RemoveConnection" /\ last.res = "Ok"
    /\ <<last.a, last.b>> \notin DOMAIN g.feed_forward
    /\ \E d \in Connections(g) : d[1] = last.a
    /\ \E d \in Connections(g) : d[2] = last.b

----------------------------------------------------------------------------
(* C10: AddRecurrentConnection returns CouldNotAddRecurrentConnection only
   when no unconnected pair is left: whatever the offset of the scan, when
   some pair (start, end), start any node, end a hidden or output node,
   start # end, is not in recurrent, the operator inserts one such
   connection and returns Ok. *)

FreeRecurrentPairs(genome) ==
    {p \in Nodes(genome) \X (DOMAIN genome.hidden \cup DOMAIN genome.outputs) :
        p[1] # p[2] /\ p \notin DOMAIN genome.recurrent}

C10_AddRecurrentConnection ==
    [][(last'.op = "AddRecurrentConnection" /\ FreeRecurrentPairs(g) # {}) =>
        /\ last'.res = "Ok"
        /\ \E p \in FreeRecurrentPairs(g) :
              DOMAIN g'.recurrent = DOMAIN g.recurrent \cup {p}]_vars

----------------------------------------------------------------------------
(* C6: the offspring a.cross_in(b) holds exactly the gene identities of a in
   hidden, feed_forward and recurrent; for an identity found in both
   parents the offspring's copy is a's copy or b's copy; crossing a genome
   with itself gives that genome. *)
C6_CrossIn ==
    [][(last'.op = "CrossIn") =>
        /\ \A f \in {"hidden", "feed_forward", "recurrent"} :
              /\ DOMAIN g'[f] = DOMAIN g[f]
              /\ \A k \in DOMAIN g[f] \cap DOMAIN o[f] :
                    g'[f][k] = g[f][k] \/ g'[f][k] = o[f][k]
        /\ (o = g) => (g' = g)]_vars

\* an offspring of two parents each holding genes the other one lacks
C6_Witness ==
    /\ last.op = "CrossIn"
    /\ DOMAIN g.feed_forward \ DOMAIN o.feed_forward # {}
    /\ DOMAIN o.feed_forward \ DOMAIN g.feed_forward # {}
    /\ DOMAIN g.hidden \cap DOMAIN o.hidden # {}

----------------------------------------------------------------------------
(* C7: when the feed-forward graphs of both parents are acyclic, the
   feed-forward graph of the offspring is acyclic, also when a connection
   of one parent is found mirrored in the other: the offspring never holds
   a connection together with its reverse. *)
C7_CrossInAcyclic ==
    [][(/\ last'.op = "CrossIn"
        /\ ~HasCycle(DOMAIN g.feed_forward)
        /\ ~HasCycle(DOMAIN o.feed_forward)) =>
        /\ ~HasCycle(DOMAIN g'.feed_forward)
        /\ \A c \in DOMAIN g'.feed_forward :
              <<c[2], c[1]>> \notin DOMAIN g'.feed_forward]_vars

\* an offspring with a connection that the other parent holds mirrored
C7_Witness ==
    /\ last.op = "CrossIn"
    /\ \E c \in DOMAIN g.feed_forward : <<c[2], c[1]>> \in DOMAIN o.feed_forward

----------------------------------------------------------------------------
(* C5: two genomes created from the same structure that each apply AddNode
   to the same connection, split equally often before, insert hidden nodes
   of equal id; when each then applies DuplicateNode to the same hidden
   node the duplicates have equal ids; the hidden sets of the two genomes
   hold the same ids. *)
C5_SameStructureSameId ==
    [][(last'.op \in {"TwinAddNode", "TwinDuplicateNode"}) =>
        /\ DOMAIN g'.hidden \ DOMAIN g.hidden = DOMAIN o'.hidden \ DOMAIN o.hidden
        /\ DOMAIN g'.hidden = DOMAIN o'.hidden]_vars

\* both duplicated a node after their activations and weights went apart
C5_Witness ==
    /\ last.op = "TwinDuplicateNode" /\ last.res = "Ok"
    /\ last.n \in DOMAIN g.hidden \cap DOMAIN o.hidden
    /\ g.hidden # o.hidden
    /\ g.feed_forward # o.feed_forward

----------------------------------------------------------------------------
(* C11: AddRecurrentConnection takes a pair with start = end (a hidden or
   output node connected to itself) as eligible: as long as one of the
   (|inputs|+|hidden|+|outputs|) x (|hidden|+|outputs|) pairs, self-loops
   included, is not a recurrent connection the call succeeds and inserts
   one of them. *)

AllRecurrentPairs(genome) ==
    Nodes(genome) \X (DOMAIN genome.hidden \cup DOMAIN genome.outputs)

C11_RecurrentSelfLoops ==
    [][(last'.op = "AddRecurrentConnection"
          /\ AllRecurrentPairs(g) \ DOMAIN g.recurrent # {}) =>
        /\ last'.res = "Ok"
        /\ \E p \in AllRecurrentPairs(g) \ DOMAIN g.recurrent :
              DOMAIN g'.recurrent = DOMAIN g.recurrent \cup {p}]_vars

----------------------------------------------------------------------------
(* C12: AddConnection returns CouldNotAddFeedForwardConnection exactly when
   no pair (start an input or hidden node, end a hidden or output node,
   start # end) is both absent from feed_forward and cycle-safe; wherever
   the scan starts, an eligible pair is found and inserted when one
   exists. *)

EligiblePairs(genome) ==
    {p \in (DOMAIN genome.inputs \cup DOMAIN genome.hidden)
             \X (DOMAIN genome.hidden \cup DOMAIN genome.outputs) :
        /\ p[1] # p[2]
        /\ p \notin DOMAIN genome.feed_forward
        /\ ~Path(DOMAIN genome.feed_forward, p[2], p[1])}

C12_AddConnectionError ==
    [][(last'.op = "AddConnection") =>
        /\ last'.res = "CouldNotAddFeedForwardConnection" <=> EligiblePairs(g) = {}
        /\ EligiblePairs(g) # {} =>
              /\ last'.res = "Ok"
              /\ \E p \in EligiblePairs(g) :
                    DOMAIN g'.feed_forward = DOMAIN g.feed_forward \cup {p}]_vars

\* the error was reported on a genome with hidden nodes, every pair taken
C12_Witness ==
    /\ last.op = "AddConnection"
    /\ last.res = "CouldNotAddFeedForwardConnection"
    /\ DOMAIN g.hidden # {}
    /\ EligiblePairs(g) = {}

----------------------------------------------------------------------------
(* C13: ChangeWeights never produces a weight outside [-cap, cap]: when
   every feed-forward and recurrent weight is within the cap before the
   call, every weight is within the cap after it, whatever perturbation
   the sampler returns and however many calls went before. *)

WithinCap(genome, weight_cap) ==
    /\ \A c \in DOMAIN genome.feed_forward :
          /\ genome.feed_forward[c].weight <= weight_cap
          /\ genome.feed_forward[c].weight >= -weight_cap
    /\ \A c \in DOMAIN genome.recurrent :
          /\ genome.recurrent[c].weight <= weight_cap
          /\ genome.recurrent[c].weight >= -weight_cap

C13_WeightsWithinCap ==
    [][(last'.op = "ChangeWeights" /\ WithinCap(g, WeightCap)) =>
        WithinCap(g', WeightCap)]_vars

----------------------------------------------------------------------------
(* C14: the distance of a genome to itself is zero for any three factors:
   whenever compatability_distance is computed on two equal genomes, the
   total, the connection term, the weight term and the activation term are
   all exactly zero. *)

C14_SameGenomeZero ==
    (last.op = "CompatabilityDistance" /\ g = o) =>
        last.res = <<Zero, Zero, Zero, Zero>>

----------------------------------------------------------------------------
(* C15: compatability_distance returns conn_term = f_conn * U / (M + U),
   weight_term = f_weight * (sum of |weight difference| over the matching
   connections) / (M * 2 * weight_cap), zero when M = 0, activation_term =
   f_act * mismatches / matching hidden nodes, zero when there is none, and
   total = (sum of the terms) / (sum of the factors), M and U counted over
   feed_forward plus recurrent, for every cap the weights were configured
   with; one shared connection with weights 0 and 1 and factors (0, 2, 0)
   gives 1/2, a connection against the same connection split by a node with
   factors (2, 0, 0) gives 2/3. *)

StatedDistance(genome_0, genome_1, f_conn, f_weight, f_act, weight_cap) ==
    LET M == MatchingConnectionsCount(genome_0, genome_1)
        U == DifferentConnectionsCount(genome_0, genome_1)
        conn_term == Ratio(f_conn * U, M + U)
        weight_term ==
            IF M = 0 THEN Zero
            ELSE Ratio(f_weight * WeightDifference(genome_0, genome_1),
                       M * 2 * weight_cap)
        activation_term ==
            IF MatchingNodesCount(genome_0, genome_1) = 0 THEN Zero
            ELSE Ratio(f_act * ActivationDifference(genome_0, genome_1),
                       MatchingNodesCount(genome_0, genome_1))
    IN  <<Over(Plus(Plus(conn_term, weight_term), activation_term),
               f_conn + f_weight + f_act),
          conn_term, weight_term, activation_term>>

C15_DistanceFormula ==
    (last.op = "CompatabilityDistance") =>
        /\ \A weight_cap \in WeightCaps :
              (WithinCap(g, weight_cap) /\ WithinCap(o, weight_cap)) =>
                  last.res = StatedDistance(g, o, last.a[1], last.a[2], last.a[3],
                                            weight_cap)
        /\ ( /\ last.a = <<0, 2, 0>>
             /\ MatchingConnectionsCount(g, o) = 1
             /\ DifferentConnectionsCount(g, o) = 0
             /\ WeightDifference(g, o) = WUnit ) => last.res[1] = Ratio(1, 2)
        /\ ( /\ last.a = <<2, 0, 0>>
             /\ MatchingConnectionsCount(g, o) = 1
             /\ DifferentConnectionsCount(g, o) = 2 ) => last.res[1] = Ratio(2, 3)

----------------------------------------------------------------------------
(* C16: for two genomes whose weights lie within a configured cap and for
   positive factors, each of the three terms of compatability_distance lies
   between 0 and its factor and the total lies between 0 and 1. *)

Between(x, low, high) ==
    /\ x.d # 0
    /\ low * x.d <= x.n
    /\ x.n <= high * x.d

C16_TermsBounded ==
    (/\ last.op = "CompatabilityDistance"
     /\ \A i \in 1..3 : last.a[i] > 0
     /\ \E weight_cap \in WeightCaps :
           WithinCap(g, weight_cap) /\ WithinCap(o, weight_cap)) =>
        /\ Between(last.res[1], 0, 1)
        /\ \A i \in 1..3 : Between(last.res[i + 1], 0, last.a[i])

----------------------------------------------------------------------------
(* C17: applying the mutation list attempts every listed operator in list
   order, each gated only by its own chance: the operators called by one
   mutate_with_context are exactly the entries that won their chance, in
   list order, whatever the earlier entries returned, an entry listed twice
   being called twice. *)

RECURSIVE Winners(_, _)
Winners(gamble, k) ==
    IF k > Len(gamble) THEN <<>>
    ELSE (IF gamble[k] THEN <<k>> ELSE <<>>) \o Winners(gamble, k + 1)

C17_EveryListedAttempted ==
    (last.op = "MutateWithContext" /\ last.res # "Panic") =>
        last.n = Winners(last.b, 1)

----------------------------------------------------------------------------
(* C18: every operator is atomic with respect to failure: whenever
   AddConnection, AddRecurrentConnection, RemoveNode, RemoveConnection,
   RemoveRecurrentConnection or DuplicateNode returns a MutationError, the
   five gene sets of the genome, with their identities, weights and
   activations, are exactly as they were before the call. *)

MutationErrors ==
    {"CouldNotAddFeedForwardConnection", "CouldNotAddRecurrentConnection",
     "CouldNotRemoveNode", "CouldNotRemoveFeedForwardConnection",
     "CouldNotRemoveRecurrentConnection", "CouldNotDuplicateNode"}

C18_FailureAtomic ==
    [][(/\ last'.op \in {"AddConnection", "AddRecurrentConnection", "RemoveNode",
                         "RemoveConnection", "RemoveRecurrentConnection",
                         "DuplicateNode"}
        /\ last'.res \in MutationErrors) =>
          /\ g'.inputs = g.inputs
          /\ g'.outputs = g.outputs
          /\ g'.hidden = g.hidden
          /\ g'.feed_forward = g.feed_forward
          /\ g'.recurrent = g.recurrent]_vars

\* a scan over the hidden nodes of a grown genome found no removable node
C18_Witness ==
    /\ last.op = "RemoveNode"
    /\ last.res = "CouldNotRemoveNode"
    /\ DOMAIN g.hidden # {}
    /\ DOMAIN g.feed_forward # {}

----------------------------------------------------------------------------
(* C19: structural impossibility is a recoverable outcome, never an abort:
   AddNode on a genome without feed-forward connection, ChangeActivation
   and DuplicateNode on a genome without hidden node, and each remove
   operator on a genome with nothing it can remove return normally, with a
   typed error or as a no-op, and leave the genome unchanged. *)

Impossible(op, genome) ==
    \/ op = "AddNode" /\ DOMAIN genome.feed_forward = {}
    \/ op \in {"ChangeActivation", "DuplicateNode"} /\ DOMAIN genome.hidden = {}
    \/ op = "RemoveNode"
         /\ \A node \in DOMAIN genome.hidden : ~Removable(genome, node)
    \/ op = "RemoveConnection"
         /\ \A c \in DOMAIN genome.feed_forward : ~RemovableConnection(genome, c)
    \/ op = "RemoveRecurrentConnection" /\ DOMAIN genome.recurrent = {}

C19_ImpossibleRecoverable ==
    [][Impossible(last'.op, g) =>
          /\ last'.res \in MutationErrors \cup {"Ok"}
          /\ g' = g]_vars

----------------------------------------------------------------------------
(* C20: next_id never returns an identifier issued before: in every
   interleaving of next_id calls and cached iterations on one generator
   the identifiers drawn from the counter, by next_id or for any cache
   context, are pairwise distinct; the counter starts at 0 and the values
   next_id returns are strictly increasing; every cached identifier was
   drawn for its own context. *)

C20_FreshIds ==
    /\ \A i \in DOMAIN minted : \A j \in DOMAIN minted :
          i < j => minted[i].id < minted[j].id
    /\ minted # <<>> => minted[1].id = 0
    /\ \A k \in DOMAIN id_generator.id_cache :
       \A i \in DOMAIN id_generator.id_cache[k] :
          \E j \in DOMAIN minted :
              minted[j] = [by |-> k, id |-> id_generator.id_cache[k][i]]

\* next_id was called after ids were drawn for a cache context, and a later
\* iterator has read that context's entry from the cache
C20_Witness ==
    /\ \E i \in DOMAIN minted : \E j \in DOMAIN minted :
          i < j /\ minted[i].by \in CacheKeys /\ minted[j].by = NoKey
    /\ id_iter # NoIter
    /\ id_iter.index > 0
    /\ id_iter.index <= Len(id_generator.id_cache[id_iter.key])

----------------------------------------------------------------------------
(* C21: Genome::init connects exactly ceil(percent_of_connected_inputs *
   number_of_inputs) distinct input nodes, each to every output node: the
   feed-forward set holds that many times number_of_outputs connections,
   each from an input node to an output node, so the graph is acyclic, and
   with a percentage of zero the initialized genome equals the
   uninitialized one. *)

\* ceil(n / d) by its defining inequalities
CeilOf(n, d) == CHOOSE k \in 0..(n + 1) : k * d >= n /\ (k - 1) * d < n

C21_InitConnects ==
    (last.op = "init") =>
        LET amount == CeilOf(last.a[1] * last.b[1], last.a[2])
        IN  /\ last.res = "Ok"
            /\ \E selected \in SUBSET DOMAIN g.inputs :
                  /\ Cardinality(selected) = amount
                  /\ DOMAIN g.feed_forward = selected \X DOMAIN g.outputs
            /\ Cardinality(DOMAIN g.feed_forward) = amount * last.b[2]
            /\ ~HasCycle(DOMAIN g.feed_forward)
            /\ [g EXCEPT !.feed_forward = EmptyGenes] = o
            /\ last.a[1] = 0 => g = o

\* half of three inputs, rounded up to two, are connected to two outputs
C21_Witness ==
    /\ last.op = "init"
    /\ last.a = <<1, 2>>
    /\ last.b = <<3, 2>>
    /\ Cardinality(DOMAIN g.feed_forward) = 4

----------------------------------------------------------------------------
(* C22: the inputs and outputs sets of a genome never change after
   construction: whatever mutation operators and crossings were applied,
   the genome has the input and output nodes Genome::new gave it, unaltered,
   and their numbers are number_of_inputs and number_of_outputs. *)

C22_InputsOutputsFixed ==
    /\ g.inputs = GenomeNew.inputs
    /\ g.outputs = GenomeNew.outputs
    /\ Cardinality(DOMAIN g.inputs) = NumInputs
    /\ Cardinality(DOMAIN g.outputs) = NumOutputs

\* a grown genome that differs from its ancestor was crossed with it
C22_Witness ==
    /\ last.op = "CrossIn"
    /\ DOMAIN g.hidden # {}
    /\ g.feed_forward # o.feed_forward
    /\ steps >= 3

----------------------------------------------------------------------------
(* C23: DuplicateNode applied to the hidden node n adds exactly one hidden
   node n' with the activation of n and an id the genome did not have; for
   every incoming connection (x, n) it adds (x, n') with the same weight,
   for every outgoing connection (n, y) it adds (n', y); the weight of each
   outgoing connection is halved on n and on n'; a recurrent self-loop
   (n, n) is duplicated as (n', n'); feed_forward and recurrent are treated
   alike (3 feed-forward connections become 5, 6 recurrent ones 10, 1
   hidden node 2).  Without hidden node it reports CouldNotDuplicateNode. *)

\* genes is the connection set before, dup the set after the duplication
\* of n as m
Duplicated(genes, dup, n, m) ==
    LET incoming == {c \in DOMAIN genes : c[2] = n /\ c[1] # n}
        outgoing == {c \in DOMAIN genes : c[1] = n /\ c[2] # n}
        self_loop == DOMAIN genes \cap {<<n, n>>}
    IN  /\ DOMAIN dup = DOMAIN genes \cup {<<c[1], m>> : c \in incoming}
                           \cup {<<m, c[2]>> : c \in outgoing}
                           \cup {<<m, m>> : c \in self_loop}
        /\ \A c \in incoming :
              /\ dup[c].weight = genes[c].weight
              /\ dup[<<c[1], m>>].weight = genes[c].weight
        /\ \A c \in outgoing :
              /\ 2 * dup[c].weight = genes[c].weight
              /\ 2 * dup[<<m, c[2]>>].weight = genes[c].weight
        /\ \A c \in self_loop : dup[<<m, m>>].weight = dup[c].weight
        /\ \A c \in DOMAIN genes \ (incoming \cup outgoing \cup self_loop) :
              dup[c].weight = genes[c].weight

C23_DuplicateNode ==
    [][(last'.op = "DuplicateNode") =>
        IF DOMAIN g.hidden = {}
        THEN last'.res = "CouldNotDuplicateNode" /\ g' = g
        ELSE LET n == last'.a
                 m == last'.n
             IN  /\ last'.res = "Ok"
                 /\ n \in DOMAIN g.hidden
                 /\ m \notin Nodes(g)
                 /\ DOMAIN g'.hidden = DOMAIN g.hidden \cup {m}
                 /\ g'.hidden[m].activation = g.hidden[n].activation
                 /\ \A h \in DOMAIN g.hidden :
                       g'.hidden[h].activation = g.hidden[h].activation
                 /\ g'.inputs = g.inputs /\ g'.outputs = g.outputs
                 /\ Duplicated(g.feed_forward, g'.feed_forward, n, m)
                 /\ Duplicated(g.recurrent, g'.recurrent, n, m)
                 /\ ( /\ Cardinality(DOMAIN g.feed_forward) = 3
                      /\ Cardinality(DOMAIN g.recurrent) = 6
                      /\ Cardinality(DOMAIN g.hidden) = 1 ) =>
                       /\ Cardinality(DOMAIN g'.feed_forward) = 5
                       /\ Cardinality(DOMAIN g'.recurrent) = 10
                       /\ Cardinality(DOMAIN g'.hidden) = 2]_vars

\* the node with all six recurrent connections was duplicated, its
\* self-loop included
C23_Witness ==
    /\ last.op = "DuplicateNode"
    /\ last.res = "Ok"
    /\ <<last.n, last.n>> \in DOMAIN g.recurrent
    /\ Cardinality(DOMAIN g.hidden) = 2
    /\ Cardinality(DOMAIN g.feed_forward) = 5
    /\ Cardinality(DOMAIN g.recurrent) = 10

----------------------------------------------------------------------------
(* C24: ChangeActivation changes the activation of exactly one hidden node
   to a member of the activation pool that differs from its current
   activation, and leaves its id, all other nodes and all connections
   unchanged; when the pool holds no activation other than the current one,
   or the genome has no hidden node, nothing changes. *)

C24_ChangeActivation ==
    [][(last'.op = "ChangeActivation") =>
        IF DOMAIN g.hidden = {} THEN g' = g
        ELSE LET node == last'.a
                 others == last'.b \ {g.hidden[node].activation}
             IN  /\ node \in DOMAIN g.hidden
                 /\ IF others = {} THEN g' = g
                    ELSE /\ g'.hidden[node].activation \in others
                         /\ DOMAIN g'.hidden = DOMAIN g.hidden
                         /\ \A h \in DOMAIN g.hidden \ {node} :
                               g'.hidden[h] = g.hidden[h]
                         /\ SameBut(g, g', "hidden")]_vars

----------------------------------------------------------------------------
(* C25: structural removal never leaves a dangling hidden node: starting
   from a genome whose hidden nodes all have an incoming and an outgoing
   connection (feed-forward or recurrent), after any sequence of mutation
   operators every remaining hidden node has in-degree >= 1 and
   out-degree >= 1. *)

InDegree(genome, node) == Cardinality({c \in Connections(genome) : c[2] = node})

OutDegree(genome, node) == Cardinality({c \in Connections(genome) : c[1] = node})

C25_NoDanglingHidden ==
    \A node \in DOMAIN g.hidden :
        InDegree(g, node) >= 1 /\ OutDegree(g, node) >= 1

----------------------------------------------------------------------------
(* C26: every connection weight stays within [-cap, cap], for every
   configured cap > 0: after init, after AddConnection,
   AddRecurrentConnection, AddNode and DuplicateNode on a genome within the
   cap, and after cross_in of two genomes within the cap. *)

CapOperators ==
    {"init", "AddConnection", "AddRecurrentConnection", "AddNode", "DuplicateNode"}

C26_WeightsWithinConfiguredCap ==
    [][\A cap \in ConfiguredCaps :
        /\ (last'.op \in CapOperators /\ WithinCap(g, cap)) => WithinCap(g', cap)
        /\ (last'.op = "CrossIn" /\ WithinCap(g, cap) /\ WithinCap(o, cap)) =>
              WithinCap(g', cap)]_vars

----------------------------------------------------------------------------
(* C27: the identity cache is append-only and stable: every step keeps
   every context of the cache and every identifier cached for it at its
   position, whatever next_id calls and iterations for other contexts are
   interleaved; an iterator returns at position N the identifier cached at
   N, a read within the cached entries leaves the generator as it is, and a
   read past them appends exactly one identifier. *)

IsPrefix(short, long) ==
    /\ Len(short) <= Len(long)
    /\ \A i \in 1..Len(short) : long[i] = short[i]

C27_CacheAppendOnly ==
    [][/\ \A k \in DOMAIN id_generator.id_cache :
             /\ k \in DOMAIN id_generator'.id_cache
             /\ IsPrefix(id_generator.id_cache[k], id_generator'.id_cache[k])
       /\ (id_iter # NoIter /\ id_iter'.key = id_iter.key
            /\ id_iter'.index = id_iter.index + 1) =>
             LET entry == id_generator.id_cache[id_iter.key]
                 after == id_generator'.id_cache[id_iter.key]
             IN  /\ IdIterNext(id_generator, id_iter).id = after[id_iter'.index]
                 /\ IF id_iter.index < Len(entry)
                    THEN id_generator' = id_generator
                    ELSE Len(after) = Len(entry) + 1]_vars

\* a later iterator has read an identifier that an earlier one had cached,
\* after next_id was called and identifiers were cached for another context
C27_Witness ==
    /\ id_iter # NoIter
    /\ id_iter.index >= 1
    /\ id_iter.index < Len(id_generator.id_cache[id_iter.key])
    /\ \E k \in DOMAIN id_generator.id_cache :
          k # id_iter.key /\ Len(id_generator.id_cache[k]) >= 1
    /\ \E j \in DOMAIN minted : minted[j].by = NoKey

----------------------------------------------------------------------------
(* C28: for any feed-forward graph and any two distinct nodes start and
   end, would_form_cycle(start, end) returns true iff a directed path leads
   from end to start along feed_forward connections only, whatever the
   recurrent connections are; in particular, for an existing connection
   (a, b), would_form_cycle(b, a) is true, and would_form_cycle(a, b) is
   false in an acyclic graph. *)

C28_WouldFormCycle ==
    (last.op = "would_form_cycle") =>
        LET edges == DOMAIN g.feed_forward
            start == last.a
            end == last.b
        IN  /\ (last.res = "true") <=> Path(edges, end, start)
            /\ last.res \in {"true", "false"}
            /\ <<end, start>> \in edges => last.res = "true"
            /\ (<<start, end>> \in edges /\ ~HasCycle(edges)) => last.res = "false"

\* the answer is true by a path of two connections, there being no
\* connection from end to start, and the genome has recurrent connections
C28_Witness ==
    /\ last.op = "would_form_cycle"
    /\ last.res = "true"
    /\ <<last.b, last.a>> \notin DOMAIN g.feed_forward
    /\ DOMAIN g.recurrent # {}
    /\ ~HasCycle(DOMAIN g.feed_forward)

----------------------------------------------------------------------------
(* C29: within one genome no two node genes share an identifier: after
   Genome::new, init and any sequence of mutation operators and cross_in
   calls, the id sets of inputs, hidden and outputs are pairwise disjoint. *)

----------------------------------------------------------------------------
(* C30: referential integrity: after Genome::new, init and any sequence of
   mutation operators and cross_in calls with a genome of the same descent,
   the input and the output of every feed_forward and every recurrent
   connection are ids of nodes in the genome's inputs, hidden or outputs. *)

C30_ReferentialIntegrity ==
    \A c \in Connections(g) : c[1] \in Nodes(g) /\ c[2] \in Nodes(g)

\* a hidden node was removed from a genome that keeps feed-forward and
\* recurrent connections
C30_Witness ==
    /\ last.op = "RemoveNode"
    /\ last.res = "Ok"
    /\ last.a \notin Nodes(g)
    /\ DOMAIN g.feed_forward # {}
    /\ DOMAIN g.recurrent # {}

====
